---- MODULE Spec2Model ----
(***************************************************************************)
(* Model of src/app.py: the Streamlit page that fetches the DMR user       *)
(* directory for Chile, normalises it into a table, filters it and         *)
(* exports / charts the filtered view.                                     *)
(*                                                                         *)
(* One script run (a "render cycle") is one action, Render.  The cache of  *)
(* st.cache_data and the wall clock are the only state that survives a     *)
(* render cycle; the remaining variables hold what the last cycle saw and  *)
(* produced.                                                               *)
(*                                                                         *)
(* Text is a sequence of Unicode code points, so that comparison, upper(), *)
(* strip() and the regular-expression search of str.contains are computed  *)
(* and not assumed.  A missing value is one of two markers, None and NaN.  *)
(*                                                                         *)
(* Library behaviour taken as given: requests >= 2.27 (the JSON decode     *)
(* error of Response.json() is a RequestException); st.cache_data keeps    *)
(* the returned value per argument for ttl seconds and stores nothing when *)
(* the function raises; Series.astype(str) is str(x) on pandas 1.x/2.x and *)
(* keeps missing values on pandas 3 (variable keeps_na, app.py pins no     *)
(* version).                                                               *)
(***************************************************************************)
EXTENDS Integers, Sequences, FiniteSets, TLC

VARIABLES
    cache,            \* st.cache_data store of fetch_data: url -> entry
    now,              \* wall clock, seconds
    keeps_na,         \* TRUE: astype(str) keeps missing values (pandas 3)
    prev_failed,      \* the previous cycle stopped on the table of a failed fetch
    refresh,          \* st.button("Actualizar") in the last cycle
    clear_cache,      \* st.button("Limpiar caché") in the last cycle
    had_fresh,        \* the cache held a fresh entry when the last cycle began
    net59,            \* the call of line 59 went to the network
    reached68,        \* the last cycle reached the refetch of line 68
    net68,            \* the call of line 68 went to the network
    resp59,           \* what the network answered at line 59 (NoResponse if not asked)
    resp68,           \* what the network answered at line 68
    outcome,          \* "none", "done", "stopped" or the exception that escaped
    errors,           \* st.error messages shown in the last cycle
    df,               \* the loaded table
    selected_regions,
    selected_cities,
    q_input,          \* text typed into the search box
    df_region,        \* df_filtered after line 88
    df_city,          \* df_filtered after line 95
    df_filtered,      \* df_filtered after line 107
    csv,              \* lines of the exported file, each a sequence of cells
    counts_region,    \* state -> count of the filtered table
    chart_info        \* "No hay datos para graficar" was shown

vars == <<cache, now, keeps_na, prev_failed, refresh, clear_cache, had_fresh,
          net59, reached68, net68, resp59, resp68, outcome, errors, df,
          selected_regions, selected_cities, q_input, df_region, df_city,
          df_filtered, csv, counts_region, chart_info>>

(***************************************************************************)
(* Bounds of the model.                                                    *)
(***************************************************************************)
MaxTime == 1200
TickSeconds == 300
MaxRecords == 2

(***************************************************************************)
(* Text.                                                                   *)
(***************************************************************************)
None == <<-1>>
NaN == <<-2>>
isna(v) == v \in {None, NaN}

S_None == <<78, 111, 110, 101>>                      \* "None"
S_nan == <<110, 97, 110>>                            \* "nan"
SIN_REGION == <<83, 105, 110, 32, 82, 101, 103, 105, 243, 110>>  \* "Sin Región"
SIN_CIUDAD == <<83, 105, 110, 32, 67, 105, 117, 100, 97, 100>>    \* "Sin Ciudad"

IsSpace(c) == c \in {9, 10, 11, 12, 13, 32}

\* str.upper() on the Latin-1 letters (a-z, à-þ without ÷).
UpperChar(c) ==
    IF (c >= 97 /\ c <= 122) \/ (c >= 224 /\ c <= 254 /\ c # 247)
    THEN c - 32 ELSE c

upper(s) == [i \in 1..Len(s) |-> UpperChar(s[i])]

RECURSIVE lstrip(_)
lstrip(s) == IF s # <<>> /\ IsSpace(Head(s)) THEN lstrip(Tail(s)) ELSE s

RECURSIVE rstrip(_)
rstrip(s) ==
    IF s # <<>> /\ IsSpace(s[Len(s)]) THEN rstrip(SubSeq(s, 1, Len(s) - 1)) ELSE s

strip(s) == rstrip(lstrip(s))

\* Python's str comparison: -1, 0, 1 by code point, a proper prefix first.
RECURSIVE StrCmp(_, _)
StrCmp(a, b) ==
    IF a = <<>> /\ b = <<>> THEN 0
    ELSE IF a = <<>> THEN -1
    ELSE IF b = <<>> THEN 1
    ELSE IF Head(a) < Head(b) THEN -1
    ELSE IF Head(a) > Head(b) THEN 1
    ELSE StrCmp(Tail(a), Tail(b))

(***************************************************************************)
(* re: the patterns of the model are over literal characters, "." and "(". *)
(***************************************************************************)
DOT == <<46>>
LPAREN == <<40>>

\* re.compile(pat) succeeds: an opening parenthesis is never closed here.
re_compiles(pat) == \A j \in 1..Len(pat) : pat[j] # LPAREN[1]

\* pat.search(s) is not None
re_search(pat, s) ==
    \E i \in 0..(Len(s) - Len(pat)) :
        \A j \in 1..Len(pat) : pat[j] = DOT[1] \/ pat[j] = s[i + j]

(***************************************************************************)
(* Tables.  A table is its column names, in order, and its rows; a row is  *)
(* a function from the column names to values.  A JSON object of the       *)
(* payload is the sequence of its <<key, value>> members, in order.        *)
(***************************************************************************)
Range(f) == {f[i] : i \in DOMAIN f}

\* pd.DataFrame(): no columns, no rows.
EmptyFrame == [columns |-> <<>>, rows |-> <<>>]

\* df.empty: an axis of length 0.
empty(t) == Len(t.columns) = 0 \/ Len(t.rows) = 0

HasKey(rec, k) == \E j \in 1..Len(rec) : rec[j][1] = k

Lookup(rec, k) == rec[CHOOSE j \in 1..Len(rec) : rec[j][1] = k][2]

\* keys of a sequence of keys appended to cols, first appearance kept
RECURSIVE AppendNew(_, _)
AppendNew(cols, keys) ==
    IF keys = <<>> THEN cols
    ELSE AppendNew(IF Head(keys) \in Range(cols) THEN cols ELSE Append(cols, Head(keys)),
                   Tail(keys))

RECURSIVE ColumnsOf(_)
ColumnsOf(results) ==
    IF results = <<>> THEN <<>>
    ELSE AppendNew(ColumnsOf(SubSeq(results, 1, Len(results) - 1)),
                   [j \in 1..Len(results[Len(results)]) |-> results[Len(results)][j][1]])

\* pd.DataFrame(results) of a list of objects: the union of the keys in order of
\* first appearance; a key an object lacks is NaN in its row.
DataFrame(results) ==
    LET cols == ColumnsOf(results)
    IN [columns |-> cols,
        rows |-> [i \in 1..Len(results) |->
                     [c \in Range(cols) |->
                         IF HasKey(results[i], c) THEN Lookup(results[i], c) ELSE NaN]]]

\* df[col] = pd.Series([None] * len(df)) for a column that is not there
AddNoneColumn(t, col) ==
    [columns |-> Append(t.columns, col),
     rows |-> [i \in 1..Len(t.rows) |->
                  [c \in Range(t.columns) \cup {col} |->
                      IF c = col THEN None ELSE t.rows[i][c]]]]

EXPECTED == <<"state", "city", "callsign", "radio_id", "fname", "lname", "last_seen">>

RECURSIVE EnsureColumns(_, _)
EnsureColumns(t, cols) ==
    IF cols = <<>> THEN t
    ELSE EnsureColumns(IF Head(cols) \in Range(t.columns) THEN t
                       ELSE AddNoneColumn(t, Head(cols)),
                       Tail(cols))

fillna(v, filler) == IF isna(v) THEN filler ELSE v

\* Series.astype(str)
astype_str(v) ==
    IF ~isna(v) THEN v
    ELSE IF keeps_na THEN v
    ELSE IF v = None THEN S_None ELSE S_nan

\* .str accessors pass a missing value through
str_strip(v) == IF isna(v) THEN v ELSE strip(v)

str_upper(v) == IF isna(v) THEN v ELSE upper(v)

\* fault: the sentinel is not filled in
NormState_nofill(v) == str_strip(astype_str(v))

NormState(v) == str_strip(astype_str(fillna(v, SIN_REGION)))

NormCity(v) == str_strip(astype_str(fillna(v, SIN_CIUDAD)))

NormCallsign(v) == str_upper(astype_str(v))

\* lines 26-28
Normalize(t) ==
    [t EXCEPT !.rows =
        [i \in 1..Len(t.rows) |->
            [t.rows[i] EXCEPT !["state"] = NormState(@),
                              !["city"] = NormCity(@),
                              !["callsign"] = NormCallsign(@)]]]

\* comparison of two cells, ascending, na_position="last"
CmpVal(x, y) ==
    IF isna(x) /\ isna(y) THEN 0
    ELSE IF isna(x) THEN 1
    ELSE IF isna(y) THEN -1
    ELSE StrCmp(x, y)

\* fault: the sort looks at the region alone
SORT_KEYS_state_only == <<"state">>

SORT_KEYS == <<"state", "city", "callsign">>

RECURSIVE CmpRows(_, _, _)
CmpRows(a, b, keys) ==
    IF keys = <<>> THEN 0
    ELSE IF CmpVal(a[Head(keys)], b[Head(keys)]) # 0 THEN CmpVal(a[Head(keys)], b[Head(keys)])
    ELSE CmpRows(a, b, Tail(keys))

\* r placed after every row that is not greater (np.lexsort is stable)
RECURSIVE InsertRow(_, _)
InsertRow(rows, r) ==
    IF rows = <<>> THEN <<r>>
    ELSE IF CmpRows(r, Head(rows), SORT_KEYS) < 0 THEN <<r>> \o rows
    ELSE <<Head(rows)>> \o InsertRow(Tail(rows), r)

RECURSIVE SortRows(_)
SortRows(rows) ==
    IF rows = <<>> THEN <<>>
    ELSE InsertRow(SortRows(SubSeq(rows, 1, Len(rows) - 1)), rows[Len(rows)])

\* line 30: df.sort_values([...], na_position="last").reset_index(drop=True)
sort_values(t) == [t EXCEPT !.rows = SortRows(t.rows)]

(***************************************************************************)
(* fetch_data and its cache.                                               *)
(***************************************************************************)
API_URL == "https://radioid.net/api/dmr/user/?country=Chile"

URLS == {API_URL}

\* @st.cache_data(ttl=15 * 60), seconds
TTL == 15 * 60

ERR_API == "Error consultando la API"
ERR_LOAD == "No se pudieron cargar datos. Intenta nuevamente con 'Actualizar'."

NoResponse == [kind |-> "none", results |-> <<>>]

\* What the network call can end in.  "ok": a 2xx answer whose body is a JSON object
\* and whose "results", when present, is a list of objects (results; a body without
\* the key is "ok_no_results").
REQUEST_EXCEPTIONS == {"connection_error", "timeout", "http_error", "not_json"}

\* a 2xx JSON body of another shape: a top-level array, a "results" that is a string
OTHER_SHAPES == {"json_array", "results_string"}

\* lines 15-34: the function body, run on a cache miss
fetch_data_body(resp) ==
    IF resp.kind \in REQUEST_EXCEPTIONS
    THEN [raised |-> "", val |-> EmptyFrame, msgs |-> {ERR_API}]
    ELSE IF resp.kind = "json_array"
    THEN [raised |-> "AttributeError", val |-> EmptyFrame, msgs |-> {}]
    ELSE IF resp.kind = "results_string"
    THEN [raised |-> "ValueError", val |-> EmptyFrame, msgs |-> {}]
    ELSE [raised |-> "",
          val |-> sort_values(Normalize(EnsureColumns(DataFrame(resp.results), EXPECTED))),
          msgs |-> {}]

NoEntry == [present |-> FALSE, t |-> 0, val |-> EmptyFrame, msgs |-> {}]

\* an entry is served until ttl seconds after it was stored
Fresh(entry, time) == entry.present /\ time < entry.t + TTL

\* fault: the invalidation leaves the entries in place
clear_noop(c) == c

\* fetch_data.clear()
clear(c) == [u \in DOMAIN c |-> NoEntry]

\* fetch_data(url) through the cache: the stored value (and the messages the body
\* showed) on a hit; on a miss the body runs, and its value is stored unless it raised
fetch_data(c, url, time, resp) ==
    IF Fresh(c[url], time)
    THEN [cache |-> c, raised |-> "", val |-> c[url].val, msgs |-> c[url].msgs,
          net |-> FALSE]
    ELSE LET b == fetch_data_body(resp)
         IN [cache |-> IF b.raised # "" THEN c
                       ELSE [c EXCEPT ![url] = [present |-> TRUE, t |-> time,
                                                val |-> b.val, msgs |-> b.msgs]],
             raised |-> b.raised, val |-> b.val, msgs |-> b.msgs, net |-> TRUE]

(***************************************************************************)
(* The filters, the export and the counts.                                 *)
(***************************************************************************)
\* df[col].dropna().unique()
unique(t, col) == {t.rows[i][col] : i \in 1..Len(t.rows)} \ {None, NaN}

\* df[df[col].isin(values)]
isin_rows(t, col, values) ==
    [t EXCEPT !.rows = SelectSeq(t.rows, LAMBDA r : r[col] \in values)]

\* line 88
RegionStage(t, regions) == isin_rows(t, "state", regions)

\* fault: the city filter is applied even when no city is selected
CityStage_unguarded(t, cities) == isin_rows(t, "city", cities)

\* lines 94-95
CityStage(t, cities) == IF cities # {} THEN isin_rows(t, "city", cities) ELSE t

\* line 98
NormQuery(text) == upper(strip(text))

\* Series.str.contains(q, na=False): a regular-expression search
contains(v, q) == IF isna(v) THEN FALSE ELSE re_search(q, v)

\* lines 100-106, one row
mask(r, q) ==
    \/ contains(astype_str(r["callsign"]), q)
    \/ contains(str_upper(astype_str(r["fname"])), q)
    \/ contains(str_upper(astype_str(r["lname"])), q)
    \/ contains(str_upper(astype_str(r["city"])), q)
    \/ contains(str_upper(astype_str(r["state"])), q)

\* lines 99-107, for a q that compiles
TextStage(t, q) ==
    IF q # <<>> THEN [t EXCEPT !.rows = SelectSeq(t.rows, LAMBDA r : mask(r, q))] ELSE t

columns_to_show == <<"callsign", "radio_id", "fname", "lname", "city", "state", "last_seen">>

\* a cell of the CSV: a missing value is written as the empty string
CsvCell(v) == IF isna(v) THEN <<>> ELSE v

\* lines 36-37: df.to_csv(index=False): the header line, then a line per row
to_csv_bytes(t) ==
    <<t.columns>> \o
    [i \in 1..Len(t.rows) |-> [j \in 1..Len(t.columns) |-> CsvCell(t.rows[i][t.columns[j]])]]

\* line 147: df_filtered["state"].value_counts(), as a mapping
value_counts(t) ==
    [s \in unique(t, "state") |-> Cardinality({i \in 1..Len(t.rows) : t.rows[i]["state"] = s})]

NoCounts == [s \in {} |-> 0]

(***************************************************************************)
(* Inputs: what the API answers and what the user enters.                  *)
(***************************************************************************)
\* {"fname": "Ana", "callsign": "ce3abc", "city": "Stgo", "state": "RM", "id": "1"}
REC_1 ==
    << <<"fname", <<65, 110, 97>>>>, <<"callsign", <<99, 101, 51, 97, 98, 99>>>>,
       <<"city", <<83, 116, 103, 111>>>>, <<"state", <<82, 77>>>>, <<"id", <<49>>>> >>

\* {"callsign": "ce4xyz", "fname": null, "city": "Valpo ", "state": "V"}
REC_2 ==
    << <<"callsign", <<99, 101, 52, 120, 121, 122>>>>, <<"fname", None>>,
       <<"city", <<86, 97, 108, 112, 111, 32>>>>, <<"state", <<86>>>> >>

\* {"callsign": "ce1aa"}
REC_3 == << <<"callsign", <<99, 101, 49, 97, 97>>>> >>

\* {"state": null, "radio_id": "7"}
REC_4 == << <<"state", None>>, <<"radio_id", <<55>>>> >>

\* {"state": "RM", "city": "Stgo", "callsign": "CE3ZZ"}
REC_5 ==
    << <<"state", <<82, 77>>>>, <<"city", <<83, 116, 103, 111>>>>,
       <<"callsign", <<67, 69, 51, 90, 90>>>> >>

SampleRecords == {REC_1, REC_2, REC_3, REC_4, REC_5}

SeqsUpTo(S, n) == UNION {[1..k -> S] : k \in 0..n}

Failures == {[kind |-> k, results |-> <<>>] : k \in REQUEST_EXCEPTIONS \cup OTHER_SHAPES}

\* the answers of the render-cycle specification
Responses ==
    Failures \cup {[kind |-> "ok_no_results", results |-> <<>>],
                   [kind |-> "ok", results |-> <<>>],
                   [kind |-> "ok", results |-> <<REC_1, REC_2>>]}

\* the answers of the pipeline specification
WideResponses ==
    Failures \cup {[kind |-> "ok_no_results", results |-> <<>>]}
             \cup {[kind |-> "ok", results |-> rs] : rs \in SeqsUpTo(SampleRecords, MaxRecords)}

\* "", "ce3"
Queries == {<<>>, <<99, 101, 51>>}

\* "", " ", "ce3", "non", "c.3", "(", "valp"
WideQueries ==
    {<<>>, <<32>>, <<99, 101, 51>>, <<110, 111, 110>>, <<99, 46, 51>>, <<40>>,
     <<118, 97, 108, 112>>}

BUTTONS == {"none", "refresh", "clear_cache"}

\* a multiselect returns a subset of its options
RegionChoices(regions, wide) == IF wide THEN SUBSET regions ELSE {regions, {}}

CityChoices(cities, wide) == IF wide THEN SUBSET cities ELSE {{}, cities}

(***************************************************************************)
(* The render cycle.                                                       *)
(***************************************************************************)
\* the variables a cycle writes, from the record of what it did
Commit(o) ==
    /\ cache' = o.cache
    /\ prev_failed' = (outcome = "stopped" /\ df.columns = <<>>)
    /\ refresh' = o.refresh
    /\ clear_cache' = o.clear_cache
    /\ had_fresh' = Fresh(cache[API_URL], now)
    /\ net59' = o.net59
    /\ reached68' = o.reached68
    /\ net68' = o.net68
    /\ resp59' = o.resp59
    /\ resp68' = o.resp68
    /\ outcome' = o.outcome
    /\ errors' = o.errors
    /\ df' = o.df
    /\ selected_regions' = o.selected_regions
    /\ selected_cities' = o.selected_cities
    /\ q_input' = o.q_input
    /\ df_region' = o.df_region
    /\ df_city' = o.df_city
    /\ df_filtered' = o.df_filtered
    /\ csv' = o.csv
    /\ counts_region' = o.counts_region
    /\ chart_info' = o.chart_info
    /\ UNCHANGED <<now, keeps_na>>

\* a cycle that has produced nothing yet
Blank(btn) ==
    [cache |-> cache, refresh |-> btn = "refresh", clear_cache |-> btn = "clear_cache",
     net59 |-> FALSE, reached68 |-> FALSE, net68 |-> FALSE,
     resp59 |-> NoResponse, resp68 |-> NoResponse, outcome |-> "none", errors |-> {},
     df |-> EmptyFrame, selected_regions |-> {}, selected_cities |-> {}, q_input |-> <<>>,
     df_region |-> EmptyFrame, df_city |-> EmptyFrame, df_filtered |-> EmptyFrame,
     csv |-> <<>>, counts_region |-> NoCounts, chart_info |-> FALSE]

\* lines 84-167 on the table o.df
Filters(o, Qs, wide) ==
    IF "state" \notin Range(o.df.columns)
    THEN Commit([o EXCEPT !.outcome = "KeyError"])
    ELSE \E R \in RegionChoices(unique(o.df, "state"), wide) :
           LET t1 == RegionStage(o.df, R)
           IN \E C \in CityChoices(unique(t1, "city"), wide), text \in Qs :
                LET t2 == CityStage(t1, C)
                    q == NormQuery(text)
                    o2 == [o EXCEPT !.selected_regions = R, !.selected_cities = C,
                                    !.q_input = text, !.df_region = t1, !.df_city = t2]
                IN IF q # <<>> /\ ~re_compiles(q)
                   THEN Commit([o2 EXCEPT !.outcome = "re.error"])
                   ELSE LET t3 == EnsureColumns(TextStage(t2, q), columns_to_show)
                            counts == value_counts(t3)
                        IN Commit([o2 EXCEPT !.outcome = "done", !.df_filtered = t3,
                                             !.csv = to_csv_bytes(t3),
                                             !.counts_region = counts,
                                             !.chart_info = (DOMAIN counts = {})])

\* lines 65-68, then the rest of the script
Refetch(o, Resps, Qs, wide) ==
    IF ~o.refresh THEN Filters(o, Qs, wide)
    ELSE \E r2 \in Resps :
           LET f == fetch_data(clear(o.cache), API_URL, now, r2)
               o2 == [o EXCEPT !.cache = f.cache, !.reached68 = TRUE, !.net68 = f.net,
                               !.resp68 = IF f.net THEN r2 ELSE NoResponse,
                               !.errors = o.errors \cup f.msgs, !.df = f.val]
           IN IF f.raised # "" THEN Commit([o2 EXCEPT !.outcome = f.raised])
              ELSE Filters(o2, Qs, wide)

\* One run of the script.  session_state["override_url"] is set nowhere, so line 59
\* asks for API_URL.
Render(btn, Resps, Qs, wide) ==
    LET c0 == IF btn = "clear_cache" THEN clear(cache) ELSE cache
    IN \E r1 \in (IF Fresh(c0[API_URL], now) THEN {NoResponse} ELSE Resps) :
         LET f == fetch_data(c0, API_URL, now, r1)
             o == [Blank(btn) EXCEPT !.cache = f.cache, !.net59 = f.net,
                                     !.resp59 = IF f.net THEN r1 ELSE NoResponse,
                                     !.errors = f.msgs, !.df = f.val]
         IN IF f.raised # "" THEN Commit([o EXCEPT !.outcome = f.raised])
            ELSE IF empty(f.val)
            THEN Commit([o EXCEPT !.outcome = "stopped", !.errors = o.errors \cup {ERR_LOAD}])
            ELSE Refetch(o, Resps, Qs, wide)

\* time passes between two cycles
Tick ==
    /\ now + TickSeconds <= MaxTime
    /\ now' = now + TickSeconds
    /\ UNCHANGED <<cache, keeps_na, prev_failed, refresh, clear_cache, had_fresh, net59,
                   reached68, net68, resp59, resp68, outcome, errors, df,
                   selected_regions, selected_cities, q_input, df_region, df_city,
                   df_filtered, csv, counts_region, chart_info>>

Init ==
    /\ cache = [u \in URLS |-> NoEntry]
    /\ now = 0
    /\ keeps_na \in BOOLEAN
    /\ prev_failed = FALSE
    /\ refresh = FALSE
    /\ clear_cache = FALSE
    /\ had_fresh = FALSE
    /\ net59 = FALSE
    /\ reached68 = FALSE
    /\ net68 = FALSE
    /\ resp59 = NoResponse
    /\ resp68 = NoResponse
    /\ outcome = "none"
    /\ errors = {}
    /\ df = EmptyFrame
    /\ selected_regions = {}
    /\ selected_cities = {}
    /\ q_input = <<>>
    /\ df_region = EmptyFrame
    /\ df_city = EmptyFrame
    /\ df_filtered = EmptyFrame
    /\ csv = <<>>
    /\ counts_region = NoCounts
    /\ chart_info = FALSE

\* a button is pressed on a page that has been rendered before
RenderCycle ==
    \E btn \in BUTTONS :
        /\ outcome = "none" => btn = "none"
        /\ Render(btn, Responses, Queries, FALSE)

Next == Tick \/ RenderCycle

\* render cycles over time, with the cache
Spec == Init /\ [][Next]_vars

\* the first page load, over every payload and every filter input of the bounds
PageLoad == outcome = "none" /\ Render("none", WideResponses, WideQueries, TRUE)

NextPipeline == PageLoad

SpecPipeline == Init /\ [][NextPipeline]_vars

(***************************************************************************)
(* Properties.                                                             *)
(***************************************************************************)
FetchedOk59 == net59 /\ resp59.kind \in {"ok", "ok_no_results"}

FailedKinds == REQUEST_EXCEPTIONS \cup OTHER_SHAPES

\* C1: whatever way the request or its payload fails (network error, timeout,
\* non-2xx status, a body that is not JSON, JSON of another shape), fetch_data
\* raises nothing, returns an empty table and shows an error message.
C1_FetchNeverRaises ==
    /\ (net59 /\ ~reached68 /\ resp59.kind \in FailedKinds) =>
          (outcome \notin {"AttributeError", "ValueError"} /\ empty(df) /\ ERR_API \in errors)
    /\ (net68 /\ resp68.kind \in FailedKinds) =>
          (outcome \notin {"AttributeError", "ValueError"} /\ empty(df) /\ ERR_API \in errors)

\* C2: a fetch that directly follows fetch_data.clear() goes to the network, whatever
\* was cached and however fresh it was; a fetch that finds a result cached for the
\* URL less than 15 minutes ago, with no clear() before it, does not.
C2_InvalidationForcesNetwork ==
    /\ (outcome # "none" /\ clear_cache) => net59
    /\ reached68 => net68
    /\ (outcome # "none" /\ ~clear_cache /\ had_fresh) => ~net59

C2_Witness == clear_cache /\ had_fresh /\ net59 /\ now > 0

\* C3: after an HTTP failure gave an empty table, the cycle still runs the later
\* stages on it without failing: an empty filtered table, empty counts shown as
\* nothing to chart, and a CSV that is the header of the seven columns alone.
C3_DownstreamRunsOnEmpty ==
    ((net59 /\ ~reached68 /\ resp59.kind \in REQUEST_EXCEPTIONS)
        \/ (net68 /\ resp68.kind \in REQUEST_EXCEPTIONS)) =>
       /\ outcome = "done"
       /\ df_filtered.rows = <<>>
       /\ DOMAIN counts_region = {}
       /\ chart_info
       /\ csv = <<columns_to_show>>

QueryBlank == strip(q_input) = <<>>

\* C4: the filtered table is the rows of the loaded table with state in the selected
\* regions, and city in the selected cities unless none is selected, and matching the
\* query unless it is blank; no selected region gives no row; every region, no city
\* and a blank query give the loaded table back.
C4_FilterIsConjunction ==
    outcome = "done" =>
       /\ df_filtered.rows =
             SelectSeq(df.rows,
                       LAMBDA r : /\ r["state"] \in selected_regions
                                  /\ (selected_cities = {} \/ r["city"] \in selected_cities)
                                  /\ (QueryBlank \/ mask(r, upper(strip(q_input)))))
       /\ (selected_regions = {} => df_filtered.rows = <<>>)
       /\ (selected_regions = unique(df, "state") /\ selected_cities = {} /\ QueryBlank
              => df_filtered.rows = df.rows)

C4_Witness ==
    /\ outcome = "done"
    /\ selected_regions = unique(df, "state")
    /\ selected_cities = {}
    /\ ~QueryBlank
    /\ Len(df_filtered.rows) > 0
    /\ Len(df_filtered.rows) < Len(df.rows)

IsSubstring(p, s) == \E i \in 0..(Len(s) - Len(p)) : SubSeq(s, i + 1, i + Len(p)) = p

TEXT_FIELDS == {"callsign", "fname", "lname", "city", "state"}

\* C5: a query that is not blank keeps a row exactly when the query, as literal text
\* and without regard to case, occurs in the value of callsign, fname, lname, city or
\* state of the row, a missing fname or lname matching nothing; a blank query keeps
\* every row.
C5_LiteralSubstring ==
    outcome \in {"done", "re.error"} =>
       /\ outcome = "done"
       /\ df_filtered.rows =
             IF QueryBlank THEN df_city.rows
             ELSE SelectSeq(df_city.rows,
                            LAMBDA r : \E c \in TEXT_FIELDS :
                                          /\ ~isna(r[c])
                                          /\ IsSubstring(upper(strip(q_input)), upper(r[c])))

ValLT(x, y) == ~isna(x) /\ (isna(y) \/ StrCmp(x, y) < 0)

ValEQ(x, y) == x = y \/ (isna(x) /\ isna(y))

TripleLE(a, b) ==
    \/ ValLT(a["state"], b["state"])
    \/ /\ ValEQ(a["state"], b["state"])
       /\ \/ ValLT(a["city"], b["city"])
          \/ /\ ValEQ(a["city"], b["city"])
             /\ (ValLT(a["callsign"], b["callsign"]) \/ ValEQ(a["callsign"], b["callsign"]))

RECURSIVE IsSubseq(_, _)
IsSubseq(a, b) ==
    IF a = <<>> THEN TRUE
    ELSE IF b = <<>> THEN FALSE
    ELSE IF Head(a) = Head(b) THEN IsSubseq(Tail(a), Tail(b))
    ELSE IsSubseq(a, Tail(b))

\* C6: the table of a successful fetch is ascending by (state, city, callsign), missing
\* values last, and each of the three filters returns a subsequence of its input.
C6_SortedAndOrderKept ==
    /\ FetchedOk59 =>
          \A i \in 1..(Len(df.rows) - 1) : TripleLE(df.rows[i], df.rows[i + 1])
    /\ outcome \in {"done", "re.error"} =>
          /\ IsSubseq(df_region.rows, df.rows)
          /\ IsSubseq(df_city.rows, df_region.rows)
    /\ outcome = "done" => IsSubseq(df_filtered.rows, df_city.rows)

C6_Witness ==
    /\ outcome = "done"
    /\ resp59.results = <<REC_5, REC_1>>
    /\ df.rows[1]["fname"] = <<65, 110, 97>>
    /\ ~QueryBlank
    /\ df_filtered.rows = df.rows

MissingEverywhere(results, c) == \A i \in 1..Len(results) : ~HasKey(results[i], c)

\* C7: when fields are missing from every record of the payload, the table still has
\* the seven columns, and each missing one is null in every row (state and city hold
\* their sentinel instead).
C7_MissingColumnsNull ==
    FetchedOk59 =>
       \A c \in Range(EXPECTED) :
          /\ c \in Range(df.columns)
          /\ MissingEverywhere(resp59.results, c) =>
                \A i \in 1..Len(df.rows) :
                   IF c = "state" THEN df.rows[i][c] = SIN_REGION
                   ELSE IF c = "city" THEN df.rows[i][c] = SIN_CIUDAD
                   ELSE isna(df.rows[i][c])

NullIn(rec, k) == ~HasKey(rec, k) \/ isna(Lookup(rec, k))

\* C8: a record with no state (no city) becomes a row with 'Sin Región' ('Sin
\* Ciudad'), and no row of a fetched table has a null state or city.
C8_SentinelSubstitution ==
    FetchedOk59 =>
       /\ Len(df.rows) = Len(resp59.results)
       /\ \A i \in 1..Len(df.rows) : ~isna(df.rows[i]["state"]) /\ ~isna(df.rows[i]["city"])
       /\ Cardinality({i \in 1..Len(df.rows) : df.rows[i]["state"] = SIN_REGION})
             = Cardinality({i \in 1..Len(resp59.results) : NullIn(resp59.results[i], "state")})
       /\ Cardinality({i \in 1..Len(df.rows) : df.rows[i]["city"] = SIN_CIUDAD})
             = Cardinality({i \in 1..Len(resp59.results) : NullIn(resp59.results[i], "city")})

C8_Witness ==
    /\ outcome = "done"
    /\ resp59.results = <<REC_4, REC_3>>
    /\ df.rows[1]["state"] = SIN_REGION
    /\ df.rows[1]["city"] = SIN_CIUDAD

\* C9: the first line of the exported CSV is callsign, radio_id, fname, lname, city,
\* state, last_seen, in that order, whatever keys the payload had, and it is followed
\* by one line per row of the filtered table.
C9_CsvHeader ==
    outcome = "done" =>
       /\ csv[1] = columns_to_show
       /\ Len(csv) = 1 + Len(df_filtered.rows)

\* C10: when the previous cycle ended on a failed fetch, a cycle started with
\* 'Actualizar' clears the cache and fetches from the network again.
C10_RefreshRetries == (prev_failed /\ refresh) => (net59 \/ net68)

====
